---------------------------- MODULE Spec2Model ----------------------------
(***************************************************************************)
(* Model of the document-translation engine of backend/server.js.          *)
(*                                                                         *)
(* The file holds two evolutions of the engine:                            *)
(*   - lines 1-489:  the queue-draining RateLimiter (queue + processing)   *)
(*                   and the sequential scheduler;                         *)
(*   - lines 491-965: the non-queued RateLimiter (filter, sleep, push) and *)
(*                   the batched scheduler (processBatch, allSettled).     *)
(*                                                                         *)
(* JavaScript runs each handler to its next await without interleaving, so *)
(* every action below is one such run-to-completion step.                  *)
(*                                                                         *)
(* Time.  The code reads timestamps only through differences               *)
(* (now - time), so a timestamp is kept as its age in milliseconds, and a  *)
(* pending setTimeout as the milliseconds left on it.  The clock advances  *)
(* in steps of Quantum; an age is not counted past timeWindow, where the   *)
(* code no longer tells ages apart.  A timer never fires early and may     *)
(* fire late.                                                              *)
(***************************************************************************)
EXTENDS Integers, Sequences, FiniteSets, TLC

\* ------------------------------------------------------------------ bounds
NCallers == 3          \* concurrent callers of wait()
MaxLimit == 2          \* largest maxRequests tried
MaxWindowSteps == 5    \* largest timeWindow tried, in clock steps

MaxTries == 3          \* largest maxRetries tried for a lone translateWithRetry
BatchSize == 2         \* BATCH_SIZE of the batched scheduler (the code sets 8 at
                       \* server.js:603; groups of this size are checked instead)

\* ------------------------------------------------------- program constants
SeqBatchSize == 1      \* server.js:142  BATCH_SIZE
SeqMaxRetries == 5     \* server.js:188  maxRetries = 5
BatchMaxRetries == 3   \* server.js:641  maxRetries = 3
QueueGap == 100        \* server.js:70   setTimeout(r, 100) after an admission
QueueSlack == 50       \* server.js:74   setTimeout(r, waitTime + 50)
DirectSlack == 100     \* server.js:535  setTimeout(resolve, waitTime + 100)
TimerFloor == 1        \* server.js:74   setTimeout with a delay that is not a
                       \*                number waits 1 ms (Node.js timers)

\* The clock step: the smallest delay of the program.
Quantum == QueueSlack

Callers == 1..NCallers
WindowChoices == {Quantum * k : k \in 1..MaxWindowSteps}

VARIABLES
  maxRequests,   \* this.maxRequests
  timeWindow,    \* this.timeWindow
  requests,      \* this.requests, each timestamp kept as its age
  queue,         \* this.queue: the resolve callbacks, named by their caller
  processing,    \* this.processing
  drain,         \* the processQueue invocation: "none", or "sleeping" at an await
  dtimer,        \* ms left on the timer the drain loop awaits
  cstate,        \* per caller: "idle", "queued" (promise pending), "sleeping"
  ctimer,        \* per caller: ms left on the timer of a non-queued wait()
  celapsed,      \* per caller: ms since the `now` its non-queued wait() read
  admits,        \* history: ages of the admissions younger than timeWindow
  arrivals,      \* history: callers with a wait() in progress, in call order
  served,        \* history: the last caller admitted, and who was ahead of it
  burst,         \* history: the first completions of wait() on this limiter
  pq             \* history: the invocations of processQueue

limVars == <<maxRequests, timeWindow, requests, queue, processing, drain,
             dtimer, cstate, ctimer, celapsed, admits, arrivals, served, burst,
             pq>>

VARIABLES
  variant,       \* "seq": lines 85-227;  "batch": lines 545-678
  elems,         \* the parsed tree: the tag of each element, in document order
  nodes,         \* the parsed tree: its text nodes [parent, data], in document order
  parsed,        \* history: nodes as parsed, before any write
  textNodes,     \* the textNodes array of translateHtmlStructureOptimized
  ppc,           \* where translateHtmlStructureOptimized stands
  loopI,         \* the loop variable i of the scheduler
  maxRetries,    \* the maxRetries parameter of translateWithRetry
  member,        \* per item of textNodes: its translateWithRetry call and handlers
  successCount,  \* processSequentialTranslation
  failCount,     \* processSequentialTranslation
  result,        \* what translateHtmlStructureOptimized returned
  tick,          \* history: the number of dispatching steps so far
  delaysDone     \* history: the number of delays between groups that ended

pipeVars == <<variant, elems, nodes, parsed, textNodes, ppc, loopI, maxRetries,
              member, successCount, failCount, result, tick, delaysDone>>

vars == <<limVars, pipeVars>>

\* ----------------------------------------------------------------- helpers
Min(a, b) == IF a < b THEN a ELSE b
Max(a, b) == IF a > b THEN a ELSE b

SeqToSet(s) == {s[i] : i \in 1..Len(s)}

RECURSIVE SelectAges(_, _)
\* requests.filter(time => now - time < this.timeWindow)
SelectAges(s, w) ==
  IF s = <<>> THEN <<>>
  ELSE IF Head(s) < w THEN <<Head(s)>> \o SelectAges(Tail(s), w)
       ELSE SelectAges(Tail(s), w)

FilterRequests(s, w) == SelectAges(s, w)

RECURSIVE RemoveFirst(_, _)
RemoveFirst(s, x) ==
  IF s = <<>> THEN <<>>
  ELSE IF Head(s) = x THEN Tail(s) ELSE <<Head(s)>> \o RemoveFirst(Tail(s), x)

\* The callers that called wait() before c and are not yet admitted.
Ahead(order, c) ==
  {order[i] : i \in {j \in 1..Len(order) : \E k \in (j+1)..Len(order) : order[k] = c}}

\* Ages after d more milliseconds.
Older(s, d, w) == [i \in 1..Len(s) |-> Min(s[i] + d, w)]
OlderAdmits(s, d, w) == SelectAges([i \in 1..Len(s) |-> s[i] + d], w)
Remaining(t, d) == IF t < 0 THEN t ELSE Max(t - d, 0)

\* The history of completions: done, how many calls of wait() completed, up
\* to maxRequests + 1; first, the age of the first completion, -1 before
\* it; gap, what first was when completion maxRequests + 1 happened.
NoBurst == [done |-> 0, first |-> -1, gap |-> -1]
Completed(b) ==
  [done |-> Min(b.done + 1, maxRequests + 1),
   first |-> IF b.first < 0 THEN 0 ELSE b.first,
   gap |-> IF b.done = maxRequests THEN b.first ELSE b.gap]
BurstOlder(b, d, w) ==
  [b EXCEPT !.first = IF @ < 0 THEN @ ELSE Min(@ + d, w)]

\* The history of processQueue: loops, the invocations that are between
\* setting processing (56) and clearing it (78); calls, the parity of the
\* number of invocations made from outside wait(); busy, whether the last
\* of these found processing set.
NoDrain == [loops |-> 0, calls |-> 0, busy |-> FALSE]
Started(h) == [h EXCEPT !.loops = @ + 1]
Probed(h, flag) == [h EXCEPT !.calls = 1 - @, !.busy = flag]


\* No pipeline: the limiter is studied with abstract callers.
PipeIdle ==
  /\ variant = "none"
  /\ elems = <<>>
  /\ nodes = <<>>
  /\ parsed = [elems |-> <<>>, nodes |-> <<>>]
  /\ textNodes = <<>>
  /\ ppc = "none"
  /\ loopI = 0
  /\ maxRetries = 0
  /\ member = <<>>
  /\ successCount = 0
  /\ failCount = 0
  /\ result = [elems |-> <<>>, nodes |-> <<>>]
  /\ tick = 0
  /\ delaysDone = 0

\* ------------------------------------------------ the two limiters: shared
LimiterInit ==
  /\ maxRequests \in 1..MaxLimit
  /\ timeWindow \in WindowChoices
  /\ requests = <<>>
  /\ queue = <<>>
  /\ processing = FALSE
  /\ drain = "none"
  /\ dtimer = -1
  /\ cstate = [c \in Callers |-> "idle"]
  /\ ctimer = [c \in Callers |-> -1]
  /\ celapsed = [c \in Callers |-> 0]
  /\ admits = <<>>
  /\ arrivals = <<>>
  /\ served = [who |-> 0, ahead |-> {}]
  /\ burst = NoBurst
  /\ pq = NoDrain

\* Quantum milliseconds pass.
Tick ==
  /\ requests' = Older(requests, Quantum, timeWindow)
  /\ admits' = OlderAdmits(admits, Quantum, timeWindow)
  /\ dtimer' = Remaining(dtimer, Quantum)
  /\ ctimer' = [c \in Callers |-> Remaining(ctimer[c], Quantum)]
  /\ celapsed' = [c \in Callers |->
                    IF cstate[c] = "sleeping"
                    THEN Min(celapsed[c] + Quantum, timeWindow) ELSE 0]
  /\ burst' = BurstOlder(burst, Quantum, timeWindow)
  /\ UNCHANGED <<pipeVars, maxRequests, timeWindow, queue, processing, drain, cstate,
                 arrivals, served, pq>>

\* ------------------------------------- queue-draining RateLimiter (35-80)
\* if (this.requests.length < this.maxRequests)
HasSlotOff(r) == Len(r) <= maxRequests
HasSlot(r) == Len(r) < maxRequests

\* this.queue.shift(): the position taken from the queue
ShiftLast(q) == Len(q)
ShiftPos(q) == 1

\* this.processing = false, after the while loop
ExitFlagKept == TRUE
ExitFlag == FALSE

\* waitTime + 50, with waitTime = this.timeWindow - (now - oldest); with
\* no request recorded oldest is undefined and waitTime + 50 is NaN.
BlockedDelay(r) ==
  IF r = <<>> THEN TimerFloor ELSE (timeWindow - Head(r)) + QueueSlack

\* The while loop of processQueue from its test to its next await, or to its
\* exit: q, r, cs, arr, h are queue, requests, cstate, arrivals, pq as the
\* caller of this step left them.
DrainLoop(q, r, cs, arr, h) ==
  IF q = <<>>
  THEN /\ processing' = ExitFlag
       /\ pq' = [h EXCEPT !.loops = @ - 1]
       /\ drain' = "none"
       /\ dtimer' = -1
       /\ queue' = q
       /\ requests' = r
       /\ cstate' = cs
       /\ arrivals' = arr
       /\ UNCHANGED <<admits, served, burst>>
  ELSE LET f == FilterRequests(r, timeWindow) IN
       IF HasSlot(f)
       THEN LET c == q[ShiftPos(q)] IN
            /\ queue' = RemoveFirst(q, c)
            /\ requests' = Append(f, 0)
            /\ cstate' = [cs EXCEPT ![c] = "idle"]
            /\ admits' = Append(admits, 0)
            /\ burst' = Completed(burst)
            /\ pq' = h
            /\ served' = [who |-> c, ahead |-> Ahead(arr, c)]
            /\ arrivals' = RemoveFirst(arr, c)
            /\ processing' = TRUE
            /\ drain' = "sleeping"
            /\ dtimer' = QueueGap
       ELSE /\ queue' = q
            /\ requests' = f
            /\ cstate' = cs
            /\ arrivals' = arr
            /\ processing' = TRUE
            /\ drain' = "sleeping"
            /\ dtimer' = BlockedDelay(f)
            /\ pq' = h
            /\ UNCHANGED <<admits, served, burst>>

\* if (this.processing || this.queue.length === 0) return;
ReturnsAtOnceIfEmpty(q) == q = <<>>
ReturnsAtOnce(q) == processing \/ q = <<>>

\* processQueue(): it returns at once when processing is set or the queue
\* is empty; otherwise it sets processing and runs to its first await inside
\* this same step.
ProcessQueue(q, r, cs, arr, h) ==
  IF ReturnsAtOnce(q)
  THEN /\ queue' = q
       /\ requests' = r
       /\ cstate' = cs
       /\ arrivals' = arr
       /\ pq' = h
       /\ UNCHANGED <<processing, drain, dtimer, admits, served, burst>>
  ELSE DrainLoop(q, r, cs, arr, Started(h))

\* wait(): push the resolve callback; call processQueue unless processing
\* is set.
QueueWait(c) ==
  /\ cstate[c] = "idle"
  /\ LET q == Append(queue, c)
         cs == [cstate EXCEPT ![c] = "queued"]
         arr == Append(arrivals, c)
     IN IF ~processing
        THEN ProcessQueue(q, requests, cs, arr, pq)
        ELSE /\ queue' = q
             /\ cstate' = cs
             /\ arrivals' = arr
             /\ UNCHANGED <<requests, processing, drain, dtimer, admits, served,
                            burst, pq>>
  /\ UNCHANGED <<pipeVars, maxRequests, timeWindow, ctimer, celapsed>>

\* processQueue() invoked on the limiter from outside wait(), at any time.
ProcessQueueCall ==
  /\ ProcessQueue(queue, requests, cstate, arrivals, Probed(pq, processing))
  /\ UNCHANGED <<pipeVars, maxRequests, timeWindow, ctimer, celapsed>>

\* The timer the drain loop awaits fires: the loop goes round.
DrainResume ==
  /\ drain = "sleeping"
  /\ dtimer = 0
  /\ DrainLoop(queue, requests, cstate, arrivals, pq)
  /\ UNCHANGED <<pipeVars, maxRequests, timeWindow, ctimer, celapsed>>

QueueNext == Tick \/ DrainResume \/ (\E c \in Callers : QueueWait(c))

QueueInit == LimiterInit /\ PipeIdle

SpecQueue == QueueInit /\ [][QueueNext]_vars

\* The same with processQueue also invoked from outside wait().
DrainNext ==
  \/ Tick
  \/ DrainResume
  \/ ProcessQueueCall
  \/ \E c \in Callers : QueueWait(c)

DrainInit == LimiterInit /\ PipeIdle

SpecDrain == DrainInit /\ [][DrainNext]_vars

\* Timers fire, and the clock moves while a timer is pending.
FairSpecQueue == SpecQueue /\ WF_vars(Tick) /\ WF_vars(DrainResume)

\* new RateLimiter(m, w): the fields as the constructor leaves them (36-42).
Constructor(m, w) ==
  /\ maxRequests = m
  /\ timeWindow = w
  /\ requests = <<>>
  /\ queue = <<>>
  /\ processing = FALSE

\* The queue-draining limiter constructed with any numbers, among them zero
\* and negative ones.
ConfigInit ==
  /\ \E m \in -1..MaxLimit, w \in {-Quantum, 0} \cup WindowChoices :
       Constructor(m, w)
  /\ drain = "none"
  /\ dtimer = -1
  /\ cstate = [c \in Callers |-> "idle"]
  /\ ctimer = [c \in Callers |-> -1]
  /\ celapsed = [c \in Callers |-> 0]
  /\ admits = <<>>
  /\ arrivals = <<>>
  /\ served = [who |-> 0, ahead |-> {}]
  /\ burst = NoBurst
  /\ pq = NoDrain
  /\ PipeIdle

SpecConfig == ConfigInit /\ [][QueueNext]_vars

FairSpecConfig == SpecConfig /\ WF_vars(Tick) /\ WF_vars(DrainResume)

\* --------------------------------------- non-queued RateLimiter (521-540)
\* waitTime + 100, with waitTime = this.timeWindow - (now - oldest)
DirectDelayElapsed(r) == Head(r) + DirectSlack
DirectDelay(r) == (timeWindow - Head(r)) + DirectSlack

\* wait() up to its await, or to its return when there is room.
DirectWait(c) ==
  /\ cstate[c] = "idle"
  /\ LET f == FilterRequests(requests, timeWindow) IN
     IF Len(f) >= maxRequests
     THEN /\ requests' = f
          /\ cstate' = [cstate EXCEPT ![c] = "sleeping"]
          /\ ctimer' = [ctimer EXCEPT ![c] = DirectDelay(f)]
          /\ celapsed' = [celapsed EXCEPT ![c] = 0]
          /\ arrivals' = Append(arrivals, c)
          /\ UNCHANGED <<admits, served, burst>>
     ELSE /\ requests' = Append(f, 0)
          /\ admits' = Append(admits, 0)
          /\ burst' = Completed(burst)
          /\ served' = [who |-> c, ahead |-> SeqToSet(arrivals)]
          /\ UNCHANGED <<cstate, ctimer, celapsed, arrivals>>
  /\ UNCHANGED <<pipeVars, maxRequests, timeWindow, queue, processing, drain, dtimer,
                 pq>>

\* The sleep of wait() ends: this.requests.push(now), with the `now` read
\* before the sleep, and wait() returns.
DirectWake(c) ==
  /\ cstate[c] = "sleeping"
  /\ ctimer[c] = 0
  /\ requests' = Append(requests, celapsed[c])
  /\ admits' = Append(admits, 0)
  /\ burst' = Completed(burst)
  /\ served' = [who |-> c, ahead |-> Ahead(arrivals, c)]
  /\ arrivals' = RemoveFirst(arrivals, c)
  /\ cstate' = [cstate EXCEPT ![c] = "idle"]
  /\ ctimer' = [ctimer EXCEPT ![c] = -1]
  /\ celapsed' = [celapsed EXCEPT ![c] = 0]
  /\ UNCHANGED <<pipeVars, maxRequests, timeWindow, queue, processing, drain, dtimer,
                 pq>>

DirectNext ==
  \/ Tick
  \/ \E c \in Callers : DirectWait(c)
  \/ \E c \in Callers : DirectWake(c)

DirectInit == LimiterInit /\ PipeIdle

SpecDirect == DirectInit /\ [][DirectNext]_vars

\* ------------------------------------------ a burst of calls, either limiter
\* Calls of wait() issued back to back on a fresh limiter: every call is
\* made in the instant of the first one.  variant names the limiter:
\* "seq" the queue-draining one (35-80), "batch" the non-queued one (521-540).
BurstWait(c) ==
  /\ burst.first <= 0
  /\ IF variant = "seq" THEN QueueWait(c) ELSE DirectWait(c)

BurstNext ==
  \/ Tick
  \/ DrainResume
  \/ \E c \in Callers : BurstWait(c)
  \/ \E c \in Callers : DirectWake(c)

BurstInit ==
  /\ LimiterInit
  /\ variant \in {"seq", "batch"}
  /\ elems = <<>>
  /\ nodes = <<>>
  /\ parsed = [elems |-> <<>>, nodes |-> <<>>]
  /\ textNodes = <<>>
  /\ ppc = "none"
  /\ loopI = 0
  /\ maxRetries = 0
  /\ member = <<>>
  /\ successCount = 0
  /\ failCount = 0
  /\ result = [elems |-> <<>>, nodes |-> <<>>]
  /\ tick = 0
  /\ delaysDone = 0

SpecBurst == BurstInit /\ [][BurstNext]_vars


\* ---------------------------------------------------------------- strings
\* A string is a sequence of one-character strings.
\* The whitespace of the alphabet used: the space.
IsSpace(ch) == ch = " "
IsDigit(ch) == ch \in {"0", "1", "2", "3", "4", "5", "6", "7", "8", "9"}

RECURSIVE TrimStart(_)
TrimStart(str) ==
  IF str = <<>> THEN <<>>
  ELSE IF IsSpace(Head(str)) THEN TrimStart(Tail(str)) ELSE str

RECURSIVE TrimEnd(_)
TrimEnd(str) ==
  IF str = <<>> THEN <<>>
  ELSE IF IsSpace(str[Len(str)]) THEN TrimEnd(SubSeq(str, 1, Len(str) - 1))
       ELSE str

\* String.prototype.trim
Trim(str) == TrimEnd(TrimStart(str))

\* str.replace(/[.,]/g, '')
StripSeparators(str) == SelectSeq(str, LAMBDA ch : ch \notin {".", ","})

\* isOnlyNumbers (137-139, 598-600): /^\d+$/.test(str.replace(/[.,]/g, ''))
IsOnlyNumbers(str) ==
  LET t == StripSeparators(str)
  IN  t # <<>> /\ \A i \in 1..Len(t) : IsDigit(t[i])

\* The index of the first occurrence of pat in str, 0 when there is none.
IndexOf(str, pat) ==
  LET hits == {i \in 1..(Len(str) - Len(pat) + 1) :
                 SubSeq(str, i, i + Len(pat) - 1) = pat}
  IN  IF hits = {} THEN 0 ELSE CHOOSE i \in hits : \A j \in hits : i <= j

RECURSIVE Substitute(_, _)
\* The replacement text of String.prototype.replace for a string pattern:
\* $$ stands for a dollar and $& for the matched text.  (The two patterns
\* for the text before and after the match are not in the alphabet used.)
Substitute(repl, matched) ==
  IF repl = <<>> THEN <<>>
  ELSE IF Head(repl) = "$" /\ Len(repl) >= 2 /\ repl[2] \in {"$", "&"}
       THEN (IF repl[2] = "$" THEN <<"$">> ELSE matched)
            \o Substitute(SubSeq(repl, 3, Len(repl)), matched)
       ELSE <<Head(repl)>> \o Substitute(Tail(repl), matched)

\* str.replace(pat, repl) with a string pattern: the first occurrence only.
Replace(str, pat, repl) ==
  LET i == IndexOf(str, pat) IN
  IF i = 0 THEN str
  ELSE LET before == SubSeq(str, 1, i - 1)
           after == SubSeq(str, i + Len(pat), Len(str))
       IN  before \o Substitute(repl, pat) \o after

\* ------------------------------------------------------------- extraction
\* The switch on element.tagName of lines 102-110 and 563-571.
Priority(tag) ==
  CASE tag = "h1" -> 5
    [] tag = "h2" -> 4
    [] tag = "h3" -> 3
    [] tag \in {"strong", "b"} -> 2
    [] tag = "li" -> 1
    [] OTHER -> 0

SkippedTags == {"script", "style", "meta", "link"}

\* trimmedText.length > 1 && !isOnlyNumbers(trimmedText)
Qualifies(data) == Len(Trim(data)) > 1 /\ ~IsOnlyNumbers(Trim(data))

\* A document is its elements in document order (the order of the
\* element selector) and
\* its text nodes in document order, each with the element that holds it.
\* children.each of one element: its own text nodes, in order.
RECURSIVE ChildItems(_, _, _, _)
ChildItems(es, ns, e, t) ==
  IF t > Len(ns) THEN <<>>
  ELSE (IF ns[t].parent = e /\ Qualifies(ns[t].data)
        THEN <<[node |-> t,
                originalText |-> ns[t].data,
                trimmedText |-> Trim(ns[t].data),
                priority |-> Priority(es[e]),
                tagName |-> es[e]]>>
        ELSE <<>>)
       \o ChildItems(es, ns, e, t + 1)

RECURSIVE CollectFrom(_, _, _)
\* The each() over all elements, from element e on (91-122, 551-583)
CollectFrom(es, ns, e) ==
  IF e > Len(es) THEN <<>>
  ELSE (IF es[e] \in SkippedTags THEN <<>> ELSE ChildItems(es, ns, e, 1))
       \o CollectFrom(es, ns, e + 1)

CollectTextNodes(es, ns) == CollectFrom(es, ns, 1)

\* The comparator (a, b) => b.priority - a.priority, as "a sorts before b".
ComesBefore(a, b) == a.priority > b.priority

RECURSIVE InsertSorted(_, _)
\* Insert x after every item it does not sort before: ties keep their order.
InsertSorted(sorted, x) ==
  IF sorted = <<>> THEN <<x>>
  ELSE IF ComesBefore(x, Head(sorted)) THEN <<x>> \o sorted
       ELSE <<Head(sorted)>> \o InsertSorted(Tail(sorted), x)

RECURSIVE SortFrom(_, _, _)
SortFrom(items, i, acc) ==
  IF i > Len(items) THEN acc
  ELSE SortFrom(items, i + 1, InsertSorted(acc, items[i]))

\* textNodes.sort(...) (129, 590): Array.prototype.sort is stable.
SortByPriority(items) == SortFrom(items, 1, <<>>)

\* ------------------------------------------------------ the sample inputs
TextNode(e, data) == [parent |-> e, data |-> data]

\* Documents as parsed: [elems, nodes].
SampleDocs ==
  { \* <h1>ab</h1><p> cd </p>
    [elems |-> <<"h1", "p">>,
     nodes |-> <<TextNode(1, <<"a", "b">>), TextNode(2, <<" ", "c", "d", " ">>)>>],
    \* <p> ab<em>cd</em>ef</p><h1>gh</h1>
    [elems |-> <<"p", "em", "h1">>,
     nodes |-> <<TextNode(1, <<" ", "a", "b">>), TextNode(2, <<"c", "d">>),
                 TextNode(1, <<"e", "f">>), TextNode(3, <<"g", "h">>)>>],
    \* <p>42</p><script>ab</script><li>ab</li><p>a</p><strong>cd </strong>
    [elems |-> <<"p", "script", "li", "p", "strong">>,
     nodes |-> <<TextNode(1, <<"4", "2">>), TextNode(2, <<"a", "b">>),
                 TextNode(3, <<"a", "b">>), TextNode(4, <<"a">>),
                 TextNode(5, <<"c", "d", " ">>)>>],
    \* <p>4,2</p><style>ab</style><p> </p>
    [elems |-> <<"p", "style", "p">>,
     nodes |-> <<TextNode(1, <<"4", ",", "2">>), TextNode(2, <<"a", "b">>),
                 TextNode(3, <<" ">>)>>],
    \* <li>ab</li><li>cd</li><h2> ab</h2>
    [elems |-> <<"li", "li", "h2">>,
     nodes |-> <<TextNode(1, <<"a", "b">>), TextNode(2, <<"c", "d">>),
                 TextNode(3, <<" ", "a", "b">>)>>] }

\* What the translation service can answer to one request: a transport
\* error or non-2xx status (axios throws), or a body whose translatedText is
\* absent or empty, blank, or a translation.
Responses ==
  { [ok |-> FALSE, translatedText |-> <<>>],
    [ok |-> TRUE, translatedText |-> <<>>],
    [ok |-> TRUE, translatedText |-> <<" ">>],
    [ok |-> TRUE, translatedText |-> <<"x", "y">>] }

\* ------------------------------------------------------ translateWithRetry
\* A call of translateWithRetry together with the handlers its caller put on
\* it.  pc: "idle" not yet called; "limiter0" the caller awaits wait() (174);
\* "limiter" the call awaits wait() (191, 644); "stagger" (195, 648); "post"
\* the request is out (206, 659); "backoff" (224, 675); "returned" and
\* "thrown" the call is over and its caller not yet resumed; "translated",
\* "unusable", "failed" the caller is done with the item.  context is the
\* context of the payload last sent (202, 655); delay the length in ms of
\* the backoff sleep in progress, last that of the one before it in the call
\* in progress (0: none); writes the number of assignments to node.data
\* made for the item (178, 629); prewaits the number of calls of wait() that
\* processBatchSequential completed for the item (174).
NewMember ==
  [pc |-> "idle", index |-> 0, attempt |-> 0, value |-> <<>>,
   waits |-> 0, sent |-> 0, fails |-> 0, at |-> 0, context |-> "",
   delay |-> 0, last |-> 0, writes |-> 0, prewaits |-> 0]

\* tagName.toLowerCase(), on the tag names used
ToLowerCase(tag) ==
  CASE tag = "H1" -> "h1"
    [] tag = "LI" -> "li"
    [] tag = "TABLE" -> "table"
    [] tag = "SPAN" -> "span"
    [] OTHER -> tag

\* getContextHint (229-240, 680-691)
GetContextHintNoTable(tagName) ==
  LET t == ToLowerCase(tagName) IN
  CASE t = "h1" -> "This is a main heading title. Translate accurately."
    [] t = "h2" -> "This is a section heading. Translate accurately."
    [] t \in {"h3", "h4", "h5", "h6"} -> "This is a subheading. Translate accurately."
    [] t = "li" -> "This is a list item."
    [] t \in {"strong", "b"} -> "This is emphasized important text."
    [] OTHER -> "This is regular paragraph text."
GetContextHint(tagName) ==
  LET t == ToLowerCase(tagName) IN
  CASE t = "h1" -> "This is a main heading title. Translate accurately."
    [] t = "h2" -> "This is a section heading. Translate accurately."
    [] t \in {"h3", "h4", "h5", "h6"} -> "This is a subheading. Translate accurately."
    [] t = "li" -> "This is a list item."
    [] t \in {"strong", "b"} -> "This is emphasized important text."
    [] t = "table" -> "This is table content."
    [] OTHER -> "This is regular paragraph text."

Settled(m) == m.pc \in {"translated", "unusable", "failed"}

\* The call itself, up to its first await: attempt = 1, await wait().
Called(m, idx, now) ==
  [m EXCEPT !.pc = "limiter", !.index = idx, !.attempt = 1, !.at = now]

\* if (response.data && response.data.translatedText): a non-empty string.
Accepted(r) == r.ok /\ r.translatedText # <<>>

\* if (attempt === maxRetries)
ExhaustedEarly(att) == att + 1 >= maxRetries
Exhausted(att) == att = maxRetries

\* throw new Error(`All retries failed: ...`) (217); throw error (670)
OnExhaustedFallback(m) == [m EXCEPT !.pc = "returned", !.fails = @ + 1,
                                    !.value = <<"e", "r", "r">>]
OnExhausted(m) == [m EXCEPT !.pc = "thrown", !.fails = @ + 1]

\* if (index > 0) await the stagger sleep
Staggers(m) == m.index > 0

\* if (translated && translated.trim().length > 0)
Usable(v) == v # <<>> /\ Len(Trim(v)) > 0

\* The node an item writes: item.node
TargetBySortedPosition(k) == k
TargetShared(k) == textNodes[1].node
Target(k) == textNodes[k].node

\* wait() of the call resolves: the stagger sleep, or the request.
WaitDone(k) ==
  /\ member[k].pc = "limiter"
  /\ member' = [member EXCEPT ![k] =
       IF Staggers(member[k])
       THEN [@ EXCEPT !.pc = "stagger", !.waits = @ + 1]
       ELSE [@ EXCEPT !.pc = "post", !.waits = @ + 1, !.sent = @ + 1,
                      !.context = GetContextHint(textNodes[k].tagName)]]
  /\ UNCHANGED <<limVars, variant, elems, nodes, parsed, textNodes, ppc, loopI,
                 maxRetries, successCount, failCount, result, tick, delaysDone>>

\* The stagger sleep ends: the request is posted.
StaggerDone(k) ==
  /\ member[k].pc = "stagger"
  /\ member' = [member EXCEPT ![k] =
       [@ EXCEPT !.pc = "post", !.sent = @ + 1,
                 !.context = GetContextHint(textNodes[k].tagName)]]
  /\ UNCHANGED <<limVars, variant, elems, nodes, parsed, textNodes, ppc, loopI,
                 maxRetries, successCount, failCount, result, tick, delaysDone>>

\* Math.pow(2, attempt) * 1000
BaseDelayLinear(att) == att * 1000
BaseDelay(att) == (2 ^ att) * 1000

\* Math.random() * 1000 as setTimeout takes it, in whole ms (220); the
\* batched engine adds nothing (674-675).
Jitter == IF variant = "seq" THEN {0, 500, 999} ELSE {0}

\* The request ends: return the text, or catch, and throw or back off.
Response(k, r) ==
  /\ member[k].pc = "post"
  /\ \E jitter \in Jitter :
       member' = [member EXCEPT ![k] =
         IF Accepted(r)
         THEN [@ EXCEPT !.pc = "returned", !.value = r.translatedText,
                        !.last = 0]
         ELSE IF Exhausted(@.attempt)
              THEN [OnExhausted(@) EXCEPT !.last = 0]
              ELSE [@ EXCEPT !.pc = "backoff", !.fails = @ + 1,
                             !.delay = BaseDelay(member[k].attempt) + jitter]]
  /\ UNCHANGED <<limVars, variant, elems, nodes, parsed, textNodes, ppc, loopI,
                 maxRetries, successCount, failCount, result, tick, delaysDone>>

\* The backoff sleep ends: attempt++, the loop test, the next wait(); past
\* the loop the function ends and returns undefined.
BackoffDone(k) ==
  /\ member[k].pc = "backoff"
  /\ member' = [member EXCEPT ![k] =
       IF @.attempt + 1 <= maxRetries
       THEN [@ EXCEPT !.pc = "limiter", !.attempt = @ + 1,
                      !.last = member[k].delay, !.delay = 0]
       ELSE [@ EXCEPT !.pc = "returned", !.attempt = @ + 1, !.value = <<>>,
                      !.last = 0, !.delay = 0]]
  /\ UNCHANGED <<limVars, variant, elems, nodes, parsed, textNodes, ppc, loopI,
                 maxRetries, successCount, failCount, result, tick, delaysDone>>

\* The caller resumes with the text (176-180, 627-631).
Then(k) ==
  /\ member[k].pc = "returned"
  /\ ppc = "group"
  /\ IF Usable(member[k].value)
     THEN /\ nodes' = [nodes EXCEPT ![Target(k)].data =
                 Replace(textNodes[k].originalText, textNodes[k].trimmedText,
                         member[k].value)]
          /\ member' = [member EXCEPT ![k].pc = "translated",
                                      ![k].writes = @ + 1]
     ELSE /\ member' = [member EXCEPT ![k].pc = "unusable"]
          /\ UNCHANGED nodes
  /\ UNCHANGED <<limVars, variant, elems, parsed, textNodes, ppc, loopI,
                 maxRetries, successCount, failCount, result, tick, delaysDone>>

\* The caller catches the error (181-184, 632-635): the text is kept.
Catch(k) ==
  /\ member[k].pc = "thrown"
  /\ ppc = "group"
  /\ member' = [member EXCEPT ![k].pc = "failed"]
  /\ UNCHANGED <<limVars, variant, elems, nodes, parsed, textNodes, ppc, loopI,
                 maxRetries, successCount, failCount, result, tick, delaysDone>>

\* --------------------------------------------------------- the schedulers
GroupSize == IF variant = "seq" THEN SeqBatchSize ELSE BatchSize

\* textNodes.slice(i, i + BATCH_SIZE), as positions of textNodes
Group(items, i) == {k \in 1..Len(items) : i < k /\ k <= i + GroupSize}

\* The group at i is started.  seq: processBatchSequential awaits wait()
\* for its item (174).  batch: processBatch calls translateWithRetry for
\* every item of the group, each with its index in the group (625-626).
Dispatch(ms, items, i, now) ==
  [k \in 1..Len(items) |->
     IF k \in Group(items, i)
     THEN IF variant = "seq"
          THEN [ms[k] EXCEPT !.pc = "limiter0"]
          ELSE Called(ms[k], k - i - 1, now)
     ELSE ms[k]]

\* $.html(): the tree as it stands
Serialize(es, ns) == [elems |-> es, nodes |-> ns]

\* translateHtmlStructureOptimized up to its first await, or to its return
\* when there is nothing to translate.
Start ==
  /\ ppc = "start"
  /\ LET items == SortByPriority(CollectTextNodes(elems, nodes)) IN
     IF Len(items) = 0
     THEN /\ ppc' = "done"
          /\ result' = parsed
          /\ UNCHANGED <<textNodes, member, tick>>
     ELSE /\ textNodes' = items
          /\ member' = Dispatch([k \in 1..Len(items) |-> NewMember], items, 0, tick + 1)
          /\ tick' = tick + 1
          /\ ppc' = "group"
          /\ UNCHANGED result
  /\ UNCHANGED <<limVars, variant, elems, nodes, parsed, loopI, maxRetries,
                 successCount, failCount, delaysDone>>

\* seq only: wait() of processBatchSequential resolves, and translateWithRetry
\* is called with the index of the item in its batch (176).
PreWaitDone(k) ==
  /\ member[k].pc = "limiter0"
  /\ member' = [member EXCEPT ![k] =
       [Called(@, k - loopI - 1, tick + 1) EXCEPT !.prewaits = @ + 1]]
  /\ tick' = tick + 1
  /\ UNCHANGED <<limVars, variant, elems, nodes, parsed, textNodes, ppc, loopI,
                 maxRetries, successCount, failCount, result, delaysDone>>

\* await processBatchSequential(batch) (153): its loop went through the
\* batch.  await Promise.allSettled(promises) (638): every promise settled.
GroupFirstSettled(i) == \E k \in Group(textNodes, i) : Settled(member[k])
GroupSettled(i) == \A k \in Group(textNodes, i) : Settled(member[k])

\* The group is over (processBatchSequential returned; allSettled resolved).
\* seq counts it as a success.  With a group left the delay starts, else
\* the loop ends and the document is serialized and returned.
GroupDone ==
  /\ ppc = "group"
  /\ GroupSettled(loopI)
  /\ successCount' = IF variant = "seq"
                     THEN successCount + Cardinality(Group(textNodes, loopI))
                     ELSE successCount
  /\ IF loopI + GroupSize < Len(textNodes)
     THEN /\ ppc' = "delay"
          /\ UNCHANGED <<loopI, result>>
     ELSE /\ ppc' = "done"
          /\ loopI' = loopI + GroupSize
          /\ result' = Serialize(elems, nodes)
  /\ UNCHANGED <<limVars, variant, elems, nodes, parsed, textNodes, maxRetries,
                 member, failCount, tick, delaysDone>>

\* The delay between groups ends: i += BATCH_SIZE and the next group starts.
DelayDone ==
  /\ ppc = "delay"
  /\ loopI' = loopI + GroupSize
  /\ member' = Dispatch(member, textNodes, loopI + GroupSize, tick + 1)
  /\ tick' = tick + 1
  /\ ppc' = "group"
  /\ delaysDone' = delaysDone + 1
  /\ UNCHANGED <<limVars, variant, elems, nodes, parsed, textNodes, maxRetries,
                 successCount, failCount, result>>

LimiterIdle ==
  /\ maxRequests = 0
  /\ timeWindow = 0
  /\ requests = <<>>
  /\ queue = <<>>
  /\ processing = FALSE
  /\ drain = "none"
  /\ dtimer = -1
  /\ cstate = [c \in Callers |-> "idle"]
  /\ ctimer = [c \in Callers |-> -1]
  /\ celapsed = [c \in Callers |-> 0]
  /\ admits = <<>>
  /\ arrivals = <<>>
  /\ served = [who |-> 0, ahead |-> {}]
  /\ burst = NoBurst
  /\ pq = NoDrain

\* One upload: a document, handled by one of the two engines.
PipeInit ==
  /\ variant \in {"seq", "batch"}
  /\ \E d \in SampleDocs : elems = d.elems /\ nodes = d.nodes /\ parsed = d
  /\ textNodes = <<>>
  /\ ppc = "start"
  /\ loopI = 0
  /\ maxRetries = IF variant = "seq" THEN SeqMaxRetries ELSE BatchMaxRetries
  /\ member = <<>>
  /\ successCount = 0
  /\ failCount = 0
  /\ result = [elems |-> <<>>, nodes |-> <<>>]
  /\ tick = 0
  /\ delaysDone = 0

PipeNext ==
  \/ Start
  \/ GroupDone
  \/ DelayDone
  \/ \E k \in 1..Len(member) : PreWaitDone(k)
  \/ \E k \in 1..Len(member) : WaitDone(k)
  \/ \E k \in 1..Len(member) : StaggerDone(k)
  \/ \E k \in 1..Len(member), r \in Responses : Response(k, r)
  \/ \E k \in 1..Len(member) : BackoffDone(k)
  \/ \E k \in 1..Len(member) : Then(k)
  \/ \E k \in 1..Len(member) : Catch(k)

Init == PipeInit /\ LimiterIdle

\* A lone call translateWithRetry(text, tagName, index, maxRetries).
RetryInit ==
  /\ LimiterIdle
  /\ variant \in {"seq", "batch"}
  /\ elems = <<"p">>
  /\ nodes = <<TextNode(1, <<"a", "b">>)>>
  /\ parsed = [elems |-> elems, nodes |-> nodes]
  /\ textNodes = CollectTextNodes(elems, nodes)
  /\ ppc = "call"
  /\ loopI = 0
  /\ maxRetries \in 1..MaxTries
  /\ \E idx \in {0, 1} : member = <<Called(NewMember, idx, 1)>>
  /\ successCount = 0
  /\ failCount = 0
  /\ result = [elems |-> <<>>, nodes |-> <<>>]
  /\ tick = 1
  /\ delaysDone = 0

RetryNext ==
  \/ WaitDone(1)
  \/ StaggerDone(1)
  \/ \E r \in Responses : Response(1, r)
  \/ BackoffDone(1)

SpecRetry == RetryInit /\ [][RetryNext]_vars

\* The tag names tried for getContextHint.
HintTags ==
  {"h1", "h2", "h3", "h4", "h5", "h6", "li", "strong", "b", "table", "p",
   "td", "span", "div", "H1", "LI", "TABLE", "SPAN"}

\* A lone call translateWithRetry(text, tagName, index) for the text of an
\* element with any of these tag names.
HintInit ==
  /\ LimiterIdle
  /\ variant \in {"seq", "batch"}
  /\ \E tag \in HintTags : elems = <<tag>>
  /\ nodes = <<TextNode(1, <<"a", "b">>)>>
  /\ parsed = [elems |-> elems, nodes |-> nodes]
  /\ textNodes = CollectTextNodes(elems, nodes)
  /\ ppc = "call"
  /\ loopI = 0
  /\ maxRetries = IF variant = "seq" THEN SeqMaxRetries ELSE BatchMaxRetries
  /\ \E idx \in {0, 1} : member = <<Called(NewMember, idx, 1)>>
  /\ successCount = 0
  /\ failCount = 0
  /\ result = [elems |-> <<>>, nodes |-> <<>>]
  /\ tick = 1
  /\ delaysDone = 0

SpecHint == HintInit /\ [][RetryNext]_vars

Spec == Init /\ [][PipeNext]_vars

\* ------------------------------------------- an identity (echo) service
\* Documents with a dollar sign in their text.
DollarDocs ==
  { \* <p>a$b</p>
    [elems |-> <<"p">>, nodes |-> <<TextNode(1, <<"a", "$", "b">>)>>],
    \* <p>5$$</p>
    [elems |-> <<"p">>, nodes |-> <<TextNode(1, <<"5", "$", "$">>)>>],
    \* <h1>ab</h1><li> a$&b </li>
    [elems |-> <<"h1", "li">>,
     nodes |-> <<TextNode(1, <<"a", "b">>),
                 TextNode(2, <<" ", "a", "$", "&", "b", " ">>)>>] }

\* The service answers a request with the text it was sent (the payload's
\* text is the trimmedText of the item: 199, 652).
EchoResponse(k) ==
  Response(k, [ok |-> TRUE, translatedText |-> textNodes[k].trimmedText])

EchoInit ==
  /\ LimiterIdle
  /\ variant \in {"seq", "batch"}
  /\ \E d \in SampleDocs \cup DollarDocs :
       elems = d.elems /\ nodes = d.nodes /\ parsed = d
  /\ textNodes = <<>>
  /\ ppc = "start"
  /\ loopI = 0
  /\ maxRetries = IF variant = "seq" THEN SeqMaxRetries ELSE BatchMaxRetries
  /\ member = <<>>
  /\ successCount = 0
  /\ failCount = 0
  /\ result = [elems |-> <<>>, nodes |-> <<>>]
  /\ tick = 0
  /\ delaysDone = 0

EchoNext ==
  \/ Start
  \/ GroupDone
  \/ DelayDone
  \/ \E k \in 1..Len(member) : PreWaitDone(k)
  \/ \E k \in 1..Len(member) : WaitDone(k)
  \/ \E k \in 1..Len(member) : StaggerDone(k)
  \/ \E k \in 1..Len(member) : EchoResponse(k)
  \/ \E k \in 1..Len(member) : Then(k)

SpecEcho == EchoInit /\ [][EchoNext]_vars

\* ------------------------------------------------- the extraction, alone
\* The texts tried in a text node.
SampleTexts ==
  { <<"a", "b">>, <<" ", "a", "b">>, <<"c", "d", " ">>, <<"a">>, <<" ">>,
    <<"4", "2">>, <<"4", ",", "2">>, <<".", ",">>, <<"a", "1">> }

\* <outer>t1<inner>t2</inner>t3</outer>
NestedDocs ==
  { [elems |-> <<outer, inner>>,
     nodes |-> <<TextNode(1, t[1]), TextNode(2, t[2]), TextNode(1, t[3])>>] :
    outer \in {"p", "h1", "li", "script"},
    inner \in {"em", "strong", "style"},
    t \in [1..3 -> SampleTexts] }

\* The synchronous head of translateHtmlStructureOptimized in two steps: the
\* each() loop that fills textNodes (91-122, 551-583), then the sort (129, 590).
Extract ==
  /\ ppc = "parse"
  /\ textNodes' = CollectTextNodes(elems, nodes)
  /\ ppc' = "extracted"
  /\ UNCHANGED <<limVars, variant, elems, nodes, parsed, loopI, maxRetries,
                 member, successCount, failCount, result, tick, delaysDone>>

Sort ==
  /\ ppc = "extracted"
  /\ textNodes' = SortByPriority(textNodes)
  /\ ppc' = "sorted"
  /\ UNCHANGED <<limVars, variant, elems, nodes, parsed, loopI, maxRetries,
                 member, successCount, failCount, result, tick, delaysDone>>

ExtractInit ==
  /\ LimiterIdle
  /\ variant \in {"seq", "batch"}
  /\ \E d \in SampleDocs \cup NestedDocs :
       elems = d.elems /\ nodes = d.nodes /\ parsed = d
  /\ textNodes = <<>>
  /\ ppc = "parse"
  /\ loopI = 0
  /\ maxRetries = 0
  /\ member = <<>>
  /\ successCount = 0
  /\ failCount = 0
  /\ result = [elems |-> <<>>, nodes |-> <<>>]
  /\ tick = 0
  /\ delaysDone = 0

ExtractNext == Extract \/ Sort

SpecExtract == ExtractInit /\ [][ExtractNext]_vars

\* Every awaited promise of the pipeline settles: the service answers or
\* fails every request, every timer fires, every wait() resolves; the event
\* loop then runs the continuation.
FairSpec == Spec /\ WF_vars(PipeNext)

\* ================================================================ claims
\* C1 (queue-draining limiter): in every reachable state, the admissions
\* whose time lies in the trailing window (now - timeWindow, now] number at
\* most maxRequests.
QueueWindowBound == Len(admits) <= maxRequests

\* C1 witness: the window is full at the largest limit tried, and a caller
\* is held in the queue while the drain loop sleeps for a slot.
QueueWindowFull ==
  /\ maxRequests = MaxLimit
  /\ Len(admits) = maxRequests
  /\ queue # <<>>
  /\ drain = "sleeping"
  /\ ~HasSlot(FilterRequests(requests, timeWindow))

\* C2 (non-queued limiter): never more than maxRequests callers return from
\* wait() within a trailing window of length timeWindow.
DirectWindowBound ==
  Cardinality({i \in 1..Len(admits) : admits[i] < timeWindow}) <= maxRequests

\* C9 (queue-draining limiter): a caller is admitted only when no caller
\* that called wait() before it is still unadmitted.
QueueFifo == served.ahead = {}

\* C9 witness: a caller has just been admitted while a later caller, which
\* arrived while the drain loop slept, is still queued behind it.
QueueFifoServed ==
  /\ served.who # 0
  /\ dtimer = QueueGap
  /\ Len(queue) >= 2
  /\ Len(FilterRequests(requests, timeWindow)) = maxRequests

\* C10 (queue-draining limiter, timers eventually fire): a caller is never
\* left in the queue without a running drain loop; every queued caller is
\* eventually admitted; and whenever the queue is empty, processing is
\* eventually false unless a new caller arrives first.
QueueLive ==
  /\ [](queue # <<>> => (processing /\ drain = "sleeping"))
  /\ \A c \in Callers : (cstate[c] = "queued") ~> (cstate[c] = "idle")
  /\ (queue = <<>>) ~> ((queue = <<>> /\ ~processing) \/ queue # <<>>)

\* C10 witness: the drain loop has admitted callers and exited, leaving the
\* queue empty and processing false.
QueueDrained ==
  /\ served.who # 0
  /\ drain = "none"
  /\ ~processing
  /\ queue = <<>>
  /\ Len(admits) = MaxLimit

\* ------------------------------------------------- the pipeline, claims
Items == 1..Len(textNodes)
NodeOf(k) == textNodes[k].node
AllAttemptsFailed(k) == Settled(member[k]) /\ member[k].fails = maxRetries
Extracted(n) == \E k \in Items : NodeOf(k) = n

\* C3: a fragment whose maxRetries attempts all failed keeps the text it was
\* parsed with; the pipeline is never stopped short of its return (every
\* state before the return has a next step); and what it returns is the
\* serialized tree.
FailedKeepsText ==
  /\ \A k \in Items :
       AllAttemptsFailed(k) => nodes[NodeOf(k)].data = parsed.nodes[NodeOf(k)].data
  /\ ppc # "done" => ENABLED PipeNext
  /\ ppc = "done" =>
       /\ \A k \in Items : Settled(member[k])
       /\ result = Serialize(elems, nodes)

\* C3 witness: the pipeline returned although every fragment failed.
AllFailedReturned ==
  /\ ppc = "done"
  /\ Len(textNodes) >= 3
  /\ \A k \in Items : member[k].pc = "failed" /\ AllAttemptsFailed(k)

\* C4: whatever succeeded or failed, the tree differs from the parsed input
\* only in the text of extracted nodes whose translation was written; the
\* elements, the nodes and their places are the same, and the return value
\* is that tree.
FrameOnlyTranslated ==
  /\ elems = parsed.elems
  /\ Len(nodes) = Len(parsed.nodes)
  /\ \A n \in 1..Len(nodes) :
       /\ nodes[n].parent = parsed.nodes[n].parent
       /\ nodes[n].data # parsed.nodes[n].data =>
            \E k \in Items : NodeOf(k) = n /\ member[k].pc = "translated"
  /\ ppc = "done" /\ Len(textNodes) > 0 => result = Serialize(elems, nodes)

\* C4 witness: a batched run ended with a translated fragment that sorts
\* after a failed one, and a node that was never extracted.
MixedOutcomeReturned ==
  /\ ppc = "done"
  /\ variant = "batch"
  /\ \E k, j \in Items : /\ k < j
                        /\ member[k].pc = "failed"
                        /\ member[j].pc = "translated"
                        /\ nodes[NodeOf(j)].data # parsed.nodes[NodeOf(j)].data
  /\ \E n \in 1..Len(nodes) : ~Extracted(n)

\* C5: a call of translateWithRetry sends at most maxRetries requests, each
\* after a completed wait() of its own; the requests sent are the failed
\* ones plus the one in flight or accepted, so none follows an accepted
\* response; and the call throws only after maxRetries failed attempts.
RetryDiscipline ==
  \A k \in 1..Len(member) :
    LET m == member[k] IN
    /\ m.sent <= maxRetries
    /\ m.sent <= m.waits /\ m.waits <= m.sent + 1
    /\ m.pc = "post" => m.waits = m.sent /\ m.sent = m.attempt
    /\ m.pc = "stagger" => m.waits = m.sent + 1
    /\ m.sent = m.fails + (IF m.pc \in {"post", "returned"} THEN 1 ELSE 0)
    /\ m.pc = "thrown" => m.fails = maxRetries /\ m.sent = maxRetries

\* C5 witness: a staggered call threw after maxRetries requests.
RetryExhausted ==
  /\ maxRetries = MaxTries
  /\ member[1].pc = "thrown"
  /\ member[1].index > 0
  /\ member[1].sent = maxRetries

\* C6: every fragment ends Translated (its text replaced) or Failed (its
\* maxRetries attempts all failed): none ends with its text kept without
\* having used up its attempts.
TwoTerminalStates ==
  \A k \in Items :
    Settled(member[k]) => member[k].pc = "translated" \/ AllAttemptsFailed(k)

\* The groups of the scheduler, counted from 0.
GroupNo(k) == (k - 1) \div GroupSize
MemberStep(k) ==
  \/ PreWaitDone(k) \/ WaitDone(k) \/ StaggerDone(k) \/ BackoffDone(k)
  \/ Then(k) \/ Catch(k)
  \/ \E r \in Responses : Response(k, r)

\* C7: once a group is started all its members are; a member that is not
\* settled can always take its next step, whatever its siblings did; and a
\* member is started only when every member of the groups before it is
\* settled and the delay after each of those groups has ended.
GroupBarrier ==
  \A k \in 1..Len(member) :
    /\ member[k].pc # "idle" =>
         /\ \A j \in 1..Len(member) :
              /\ GroupNo(j) = GroupNo(k) => member[j].pc # "idle"
              /\ GroupNo(j) < GroupNo(k) => Settled(member[j])
         /\ delaysDone >= GroupNo(k)
    /\ (member[k].pc # "idle" /\ ~Settled(member[k])) => ENABLED MemberStep(k)

\* C7 witness: the batched scheduler started its second group after a first
\* group in which one member failed and another was translated.
SecondGroupStarted ==
  /\ variant = "batch"
  /\ ppc = "group"
  /\ delaysDone = 1
  /\ \E j, k \in Items : /\ GroupNo(j) = 0 /\ GroupNo(k) = 0
                        /\ member[j].pc = "failed"
                        /\ member[k].pc = "translated"
  /\ \E k \in Items : GroupNo(k) = 1 /\ member[k].pc = "limiter"

\* a comes before b: higher priority, or the same priority and earlier in
\* the document.
Precedes(a, b) ==
  \/ textNodes[a].priority > textNodes[b].priority
  \/ /\ textNodes[a].priority = textNodes[b].priority
     /\ NodeOf(a) < NodeOf(b)

\* C8: fragments start translation in priority-descending order with
\* document order as tie-break: once b has started, every a that comes
\* before it has started, no later than b.
DispatchOrder ==
  \A a, b \in Items :
    (Precedes(a, b) /\ member[b].at # 0) =>
      (member[a].at # 0 /\ member[a].at <= member[b].at)

\* C11 (every request is answered and every timer fires): the pipeline runs
\* to completion, that is, eventually translateHtmlStructureOptimized has
\* returned and every fragment is Translated (its text replaced) or Failed
\* (its maxRetries attempts all failed).
RunsToCompletion ==
  <>(/\ ppc = "done"
     /\ \A k \in Items : member[k].pc = "translated" \/ AllAttemptsFailed(k))

\* The part of C11 the code keeps: the function eventually returns with
\* every fragment settled one way or another.
EventuallyReturns == <>(ppc = "done" /\ \A k \in Items : Settled(member[k]))

\* C12: when maxRequests + 1 or more calls of wait() are issued back to back
\* on a fresh limiter, call maxRequests + 1 completes no earlier than
\* timeWindow after the first call completed.
BurstGap == burst.done = maxRequests + 1 => burst.gap >= timeWindow

\* C12 witness: at the largest limit tried, completion maxRequests + 1 of a
\* burst has happened, on the non-queued limiter, a full window after the
\* first.
BurstOverflowed ==
  /\ variant = "batch"
  /\ maxRequests = MaxLimit
  /\ burst.done = maxRequests + 1
  /\ burst.gap = timeWindow

\* C13: a RateLimiter with a non-positive maxRequests or a non-positive
\* timeWindow is rejected at construction, so wait() is never called on a
\* limiter with such a configuration.
ConfigRejected ==
  (\E c \in Callers : cstate[c] = "queued" \/ served.who = c) =>
    (maxRequests > 0 /\ timeWindow > 0)

\* What follows for the callers of such a limiter: a queued caller is
\* eventually admitted.
ConfigLive == \A c \in Callers : (cstate[c] = "queued") ~> (cstate[c] = "idle")

\* A text node the extractor is to yield: its container is not script,
\* style, meta or link, its trimmed text is longer than 1 and is not digits
\* with optional "." or ",".
Numeric(t) ==
  /\ \A i \in 1..Len(t) : IsDigit(t[i]) \/ t[i] \in {".", ","}
  /\ \E i \in 1..Len(t) : IsDigit(t[i])
Translatable(n) ==
  /\ elems[parsed.nodes[n].parent] \notin {"script", "style", "meta", "link"}
  /\ Len(Trim(parsed.nodes[n].data)) > 1
  /\ ~Numeric(Trim(parsed.nodes[n].data))

\* C14: the extractor yields, in document order, exactly the translatable
\* text nodes; a text node that is not translatable is never extracted,
\* never sent, and keeps its text.
ExtractsInDocumentOrder ==
  ppc # "parse" /\ ppc # "start" =>
    /\ ppc = "extracted" =>
         \A i, j \in Items : i < j => NodeOf(i) < NodeOf(j)
    /\ {NodeOf(k) : k \in Items} = {n \in 1..Len(nodes) : Translatable(n)}
    /\ \A n \in 1..Len(nodes) :
         ~Translatable(n) => nodes[n].data = parsed.nodes[n].data

\* The part of C14 the code keeps: which text nodes are extracted, sent and
\* written.
ExtractsTranslatable ==
  ppc # "parse" /\ ppc # "start" =>
    /\ Len(textNodes) = Cardinality({NodeOf(k) : k \in Items})
    /\ {NodeOf(k) : k \in Items} = {n \in 1..Len(nodes) : Translatable(n)}
    /\ Len(member) \in {0, Len(textNodes)}
    /\ \A n \in 1..Len(nodes) :
         ~Translatable(n) => nodes[n].data = parsed.nodes[n].data

\* Only digits and punctuation: nothing to translate.
NoContent(t) == \A i \in 1..Len(t) : IsDigit(t[i]) \/ t[i] \in {".", ","}

\* C15: the trimmedText of every extracted fragment is non-empty and is not
\* made only of digits and punctuation; a text node made only of "." and
\* "," is not extracted.
FragmentsHaveContent ==
  \A k \in Items :
    /\ Len(textNodes[k].trimmedText) > 0
    /\ ~NoContent(textNodes[k].trimmedText)

\* C16: the stagger sleep is taken only before the first attempt of a call;
\* on a later attempt the request follows the admission with no stagger
\* sleep in between.
StaggerOnlyFirst ==
  \A k \in 1..Len(member) : member[k].pc = "stagger" => member[k].attempt = 1

\* C17: when processSequentialTranslation ends, successCount is the number
\* of fragments that ended Translated, failCount the number that ended
\* Failed, and the two add up to the number of fragments.
CountsMatchOutcomes ==
  (variant = "seq" /\ ppc = "done" /\ Len(textNodes) > 0) =>
    /\ successCount = Cardinality({k \in Items : member[k].pc = "translated"})
    /\ failCount = Cardinality({k \in Items : AllAttemptsFailed(k)})
    /\ successCount + failCount = Len(textNodes)

\* C18: with a service that returns every text unchanged, the pipeline
\* leaves every text node as it was parsed, and what it returns is the
\* input.
EchoLossless ==
  /\ \A n \in 1..Len(nodes) : nodes[n].data = parsed.nodes[n].data
  /\ ppc = "done" => result = parsed

\* The hints by class of tag name.
HeadingHints ==
  { "This is a main heading title. Translate accurately.",
    "This is a section heading. Translate accurately.",
    "This is a subheading. Translate accurately." }
HintClassOk(tag, hint, generic) ==
  IF tag \in {"h1", "h2", "h3", "h4", "h5", "h6", "H1"} THEN hint \in HeadingHints
  ELSE IF tag \in {"li", "LI"} THEN hint = "This is a list item."
  ELSE IF tag \in {"strong", "b"} THEN hint = "This is emphasized important text."
  ELSE IF tag \in generic THEN hint = "This is regular paragraph text."
  ELSE hint = "This is table content."

\* The context of a call is set with its first request and is the same in
\* every later one; the step that sets it leaves the fragments, their
\* priorities, and the attempts and failures of the call as they are.
HintFrame ==
  \A k \in 1..Len(member) :
    member'[k].context # member[k].context =>
      /\ member[k].context = ""
      /\ textNodes' = textNodes
      /\ member'[k].attempt = member[k].attempt
      /\ member'[k].fails = member[k].fails
      /\ member'[k].pc = "post"

\* C19 as stated: the context of a request is a function of the tag name
\* with four classes, h1-h6 a heading hint, li the list-item hint, strong
\* and b the emphasis hint, everything else (p, td, table, span, div) the
\* generic paragraph hint; and it changes nothing else.
HintFourClasses ==
  \A k \in 1..Len(member) :
    member[k].sent > 0 =>
      HintClassOk(textNodes[k].tagName, member[k].context,
                  HintTags \ {"h1", "h2", "h3", "h4", "h5", "h6", "H1", "li",
                              "LI", "strong", "b"})

\* C19 amended: the same with five classes, table (in any case of letters)
\* having a hint of its own; and the step that sets the context changes
\* neither the fragments, nor their priorities, nor the retry counters.
HintFiveClasses ==
  /\ [](\A k \in 1..Len(member) :
          member[k].sent > 0 =>
            HintClassOk(textNodes[k].tagName, member[k].context,
                        {"p", "td", "span", "div", "SPAN"}))
  /\ [][HintFrame]_vars

\* C19 witness: a request for a text directly inside a table element was
\* sent again after a failure, with the hint for tables.
TableHintSent ==
  /\ ppc = "call"
  /\ ToLowerCase(textNodes[1].tagName) = "table"
  /\ member[1].pc = "post"
  /\ member[1].attempt = 2
  /\ member[1].context = "This is table content."

\* C20: after failed attempt k of a call, k < maxRetries, the call sleeps
\* 2^k x 1000 ms plus a jitter of 0 to 999 ms (no jitter in the batched
\* engine); a sleep is never shorter than the one before it; and no sleep
\* is taken after the last failed attempt.
BackoffLaw ==
  \A k \in 1..Len(member) :
    LET m == member[k]
        jitter == m.delay - (2 ^ m.attempt) * 1000
    IN  /\ m.pc = "backoff" =>
             /\ m.attempt < maxRetries
             /\ m.fails = m.attempt
             /\ 0 <= jitter /\ jitter < 1000
             /\ variant = "batch" => jitter = 0
             /\ m.last <= m.delay
        /\ m.pc # "backoff" => m.delay = 0
        /\ m.pc = "thrown" => m.fails = maxRetries

\* C20 witness: a call of the sequential engine is in its second backoff
\* sleep, with the smallest jitter after the largest jitter in the first.
SecondBackoff ==
  \E k \in 1..Len(member) :
    /\ variant = "seq"
    /\ member[k].pc = "backoff"
    /\ member[k].attempt = 2
    /\ member[k].last = 2999
    /\ member[k].delay = 4000

\* C21: the node of a fragment is written at most once in a run, only after
\* the translation of that fragment succeeded and only with that
\* translation, in whatever order the members of a batch complete; the node
\* of a failed fragment is never written.
SingleWrite ==
  /\ \A j, k \in Items : j # k => NodeOf(j) # NodeOf(k)
  /\ \A k \in Items :
       LET m == member[k]
           n == NodeOf(k)
       IN  /\ m.writes <= 1
           /\ m.writes = 1 <=> m.pc = "translated"
           /\ m.pc = "translated" =>
                /\ Usable(m.value)
                /\ nodes[n].data = Replace(textNodes[k].originalText,
                                           textNodes[k].trimmedText, m.value)
           /\ m.pc # "translated" => nodes[n].data = parsed.nodes[n].data

\* C21 witness: in a batch, the second member was translated and written
\* while the first, dispatched before it, was still waiting for its
\* response; a third fragment failed earlier and kept its text.
WrittenOutOfOrder ==
  /\ variant = "batch"
  /\ \E j, k \in Items :
       /\ GroupNo(j) = GroupNo(k) /\ j < k
       /\ member[j].pc = "post"
       /\ member[k].pc = "translated" /\ member[k].writes = 1
       /\ nodes[NodeOf(k)].data # parsed.nodes[NodeOf(k)].data
  /\ \E f \in Items : member[f].pc = "failed"

\* The admissions obtained from translationLimiter.wait() for an item.
Admissions(m) == m.prewaits + m.waits

\* C22 (sequential engine): the admissions consumed for a fragment are as
\* many as the requests sent for it: each admission is followed by one
\* request, so that once the fragment is settled the two numbers agree, and
\* before that at most the admission of the request to come is ahead.
AdmissionPerRequest ==
  variant = "seq" =>
    \A k \in Items :
      LET m == member[k] IN
      /\ m.sent <= Admissions(m) /\ Admissions(m) <= m.sent + 1
      /\ Settled(m) => Admissions(m) = m.sent

\* The whitespace a text starts with, and the whitespace it ends with.
Leading(str) == SubSeq(str, 1, Len(str) - Len(TrimStart(str)))
Trailing(str) == SubSeq(str, Len(TrimEnd(str)) + 1, Len(str))

\* C23: the node of a translated fragment holds the whitespace its original
\* text started with, then the translation, then the whitespace the
\* original text ended with.
WhitespaceKept ==
  \A k \in Items :
    member[k].pc = "translated" =>
      nodes[NodeOf(k)].data =
        Leading(textNodes[k].originalText) \o member[k].value
          \o Trailing(textNodes[k].originalText)

\* A step in which processQueue was invoked from outside wait() while
\* processing was set.
BusyCall == pq'.calls # pq.calls /\ processing

\* C24 (queue-draining limiter): at most one drain loop is active at any
\* time; processing is set exactly while one is between its start and its
\* exit; and an invocation of processQueue made while processing is set
\* returns without touching queue or requests, and starts no loop.
SingleDrain ==
  /\ [](/\ pq.loops <= 1
        /\ processing <=> pq.loops = 1
        /\ drain = "sleeping" <=> pq.loops = 1)
  /\ [][BusyCall => /\ queue' = queue
                    /\ requests' = requests
                    /\ pq'.loops = pq.loops
                    /\ processing' /\ drain' = drain /\ dtimer' = dtimer]_vars

\* C24 witness: processQueue was invoked from outside while a drain loop
\* slept with callers queued; the loop is still the only one.
SecondInvocation ==
  /\ pq.busy
  /\ pq.loops = 1
  /\ Len(queue) >= 2
  /\ drain = "sleeping"
  /\ served.who # 0

=============================================================================
